---- MODULE Spec2Model ----
(***************************************************************************)
(* Model of leak_audit.py (Binary Ninja "Leak Audit" plugin): the noise    *)
(* classifier, the live-instance registry, the filtered referrer query,    *)
(* the bounded backreference walker, kill_ref and the Inspect-by-Index     *)
(* command.  The Python heap is a finite set of host objects; the lists    *)
(* the tool itself allocates (the live_bvs snapshot, the walker's refs     *)
(* list) are objects of that heap too, because gc.get_referrers sees them. *)
(***************************************************************************)
EXTENDS Integers, Sequences, FiniteSets, TLC

VARIABLES
    heap,            \* host objects: id -> object record
    alive,           \* ids of the host objects that currently exist
    ns,              \* the target module's bindings: name -> 0 (unbound), -1 (non-object value), id
    nsRestricted,    \* the module's type refuses delattr (custom __delattr__)
    seen_ids,        \* print_referrers: seen_ids
    stack,           \* walk frames past the referrer query: [node, depth, lvl, refs, i, limit]
    call,            \* a pending walk(node, depth, indent) call, or NoCall
    log,             \* log_info / log_error lines written so far
    expanded,        \* history: one record per referrer enumeration, in order:
                     \*   [node, raw (gc.get_referrers), refs (what walk kept), raised]
    max_depth,       \* print_referrers argument
    per_node_limit,  \* print_referrers argument: [none |-> BOOLEAN, v |-> Nat]
    snaps,           \* live_bvs result lists currently held by running tool frames
    pc,              \* position of the running command
    input,           \* what get_text_line_input returned
    idx,             \* index accepted by _prompt_index
    boxes,           \* show_message_box calls so far
    cres,            \* outcome of the last _is_console_noise call
    kres             \* outcome of the last kill_ref call

walkVars == <<seen_ids, stack, call, log, expanded, max_depth, per_node_limit>>
heapVars == <<heap, alive>>
nsVars   == <<ns, nsRestricted>>
uiVars   == <<snaps, input, idx, boxes>>
vars == <<heap, alive, ns, nsRestricted, seen_ids, stack, call, log, expanded,
          max_depth, per_node_limit, snaps, pc, input, idx, boxes, cres, kres>>

----------------------------------------------------------------------------
(* Bounds *)

NObj == 3          \* host objects in the heap
MaxDepth == 2      \* largest max_depth passed to print_referrers directly
MaxLimit == 1      \* largest per_node_limit passed to print_referrers directly

Objs == 1..NObj

(* Program constants *)
DEFAULT_MAX_DEPTH == 3
DEFAULT_PER_NODE_LIMIT == 20

----------------------------------------------------------------------------
(* Types of host objects.  A type is known by what isinstance says of its  *)
(* instances (Kind) and by its module and class name, which _typename      *)
(* formats.                                                                *)

TypeNames == {"BinaryView", "MyView", "Holder", "frame", "traceback",
              "StackSummary", "TracebackException", "InteractiveConsole",
              "Completer", "JediCompleter", "Thread", "InterpreterThread",
              "FakeInterpreterThread", "list", "dict"}

\* what the isinstance tests of the source answer
Kind(ty) ==
    CASE ty \in {"BinaryView", "MyView"} -> "bv"
      [] ty = "frame" -> "frame"
      [] ty = "traceback" -> "tb"
      [] ty \in {"StackSummary", "list"} -> "list"      \* list, tuple, set, frozenset and subclasses
      [] ty = "InteractiveConsole" -> "console"
      [] ty = "Completer" -> "completer"
      [] ty \in {"Thread", "InterpreterThread"} -> "thread"
      [] ty = "dict" -> "dict"
      [] OTHER -> "obj"

Mdl(ty) ==
    CASE ty = "BinaryView" -> "binaryninja.binaryview"
      [] ty = "MyView" -> "myplugin"
      [] ty \in {"StackSummary", "TracebackException"} -> "traceback"
      [] ty = "InteractiveConsole" -> "code"
      [] ty = "Completer" -> "rlcompleter"
      [] ty = "JediCompleter" -> "jedi"
      [] ty = "Thread" -> "threading"
      [] ty \in {"InterpreterThread", "FakeInterpreterThread"} -> "binaryninja.scriptingprovider"
      [] ty = "Holder" -> "__main__"
      [] OTHER -> "builtins"

Cls(ty) ==
    CASE ty = "JediCompleter" -> "Completer"
      [] ty = "FakeInterpreterThread" -> "InterpreterThread"
      [] OTHER -> ty

ModNames == {"absent", "traceback", "__main__", "code", "other"}
ReprKinds == {"plain", "named", "raises"}

\* an instance: its type and the instance facts the classifier and walker read
\*   tnFails    o.__class__.__module__ raises
\*   nameInterp thread .name is a str containing "Interpreter"
\*   rp         own repr: plain, contains a tool identifier, or raises; for a
\*              container, the contribution of its elements that are not heap objects
\*   mod        value under "__name__" (dict)
\*   toolKey    has a key among inspect_bv, print_referrers, _iter_referrers_filtered (dict)
\*   getRaises  .get raises (dict subclass)
\*   refs       host objects this object holds references to
\*   pinned     held by the runtime itself (a root of reachability)
PlainObj == [ty |-> "Holder", tnFails |-> FALSE, nameInterp |-> FALSE, rp |-> "plain",
             mod |-> "absent", toolKey |-> FALSE, getRaises |-> FALSE, refs |-> {},
             pinned |-> TRUE]

NoNode == [t |-> "none", i |-> 0]
HostNode(i) == [t |-> "host", i |-> i]
RefsNode(n) == [t |-> "refs", i |-> n]     \* the refs list of the n-th expanded walk frame
SnapNode(n) == [t |-> "bvs", i |-> n]      \* the n-th live_bvs snapshot list being held

----------------------------------------------------------------------------
(* _typename *)

_typename(o) ==
    IF o.tnFails THEN <<"", Cls(o.ty)>> ELSE <<Mdl(o.ty), Cls(o.ty)>>

----------------------------------------------------------------------------
(* repr of a node.  A container's repr is made of its elements' reprs; a   *)
(* container met again inside itself prints as "[...]".                    *)

RECURSIVE ReprSet(_, _, _, _)
RECURSIVE ReprHost(_, _, _)

ReprHost(h, i, visiting) ==
    IF Kind(h[i].ty) \in {"list", "dict"}
    THEN IF i \in visiting THEN "plain"
         ELSE LET inner == ReprSet(h, h[i].refs, visiting \cup {i}, "plain")
              IN  IF h[i].rp = "raises" \/ inner = "raises" THEN "raises"
                  ELSE IF h[i].rp = "named" \/ inner = "named" THEN "named"
                  ELSE "plain"
    ELSE h[i].rp

ReprSet(h, S, visiting, acc) ==
    IF S = {} THEN acc
    ELSE LET i == CHOOSE x \in S : TRUE
             r == ReprHost(h, i, visiting)
             acc2 == IF acc = "raises" \/ r = "raises" THEN "raises"
                     ELSE IF acc = "named" \/ r = "named" THEN "named"
                     ELSE "plain"
         IN  ReprSet(h, S \ {i}, visiting, acc2)

----------------------------------------------------------------------------
(* The lists the tool allocates while it runs.                             *)

NoCall == [node |-> NoNode, depth |-> 0, lvl |-> 0]

\* elements of a tool-owned list: a walk frame's refs, or a live_bvs snapshot
ToolElems(x) ==
    IF x.t = "refs"
    THEN LET fs == {k \in 1..Len(stack) : stack[k].id = x.i}
         IN  IF fs = {} THEN <<>> ELSE stack[CHOOSE k \in fs : TRUE].refs
    ELSE IF x.t = "bvs" /\ x.i \in 1..Len(snaps) THEN snaps[x.i]
    ELSE <<>>

RECURSIVE NodeRepr(_)
RECURSIVE ReprSeq(_, _)

\* repr(x) for any node
NodeRepr(x) ==
    IF x.t = "host" THEN ReprHost(heap, x.i, {})
    ELSE ReprSeq(ToolElems(x), "plain")

ReprSeq(s, acc) ==
    IF s = <<>> THEN acc
    ELSE LET r == NodeRepr(Head(s))
             acc2 == IF acc = "raises" \/ r = "raises" THEN "raises"
                     ELSE IF acc = "named" \/ r = "named" THEN "named"
                     ELSE "plain"
         IN  ReprSeq(Tail(s), acc2)

----------------------------------------------------------------------------
(* Noise classifier.  Each predicate answers "T", "F" or "X" (it raised).  *)

_threading == TRUE
_code_mod == TRUE
_rlc_mod == TRUE

_is_interpreter_thread(o) ==
    IF _threading /\ Kind(o.ty) = "thread"
          /\ (Cls(o.ty) \in {"InterpreterThread"} \/ o.nameInterp)
    THEN "T"
    ELSE IF _typename(o)[2] = "InterpreterThread" THEN "T" ELSE "F"

_is_interactive_console(o) ==
    IF _code_mod /\ Kind(o.ty) = "console" THEN "T"
    ELSE IF _typename(o) = <<"code", "InteractiveConsole">> THEN "T" ELSE "F"

_is_completer(o) ==
    IF _rlc_mod /\ Kind(o.ty) = "completer" THEN "T"
    ELSE LET t == _typename(o)
         IN  IF t = <<"rlcompleter", "Completer">> \/ (t[1] # "" /\ t[2] = "Completer")
             THEN "T" ELSE "F"

_is_tracebackish(o) ==
    IF Kind(o.ty) \in {"tb", "frame"} THEN "T"
    ELSE LET tname == _typename(o)
         IN  IF tname[1] = "traceback" \/ tname[2] \in {"TracebackException", "StackSummary"}
             THEN "T"
             ELSE IF Kind(o.ty) = "dict"
                  THEN IF o.getRaises THEN "X"
                       ELSE IF o.mod = "traceback" THEN "T" ELSE "F"
                  ELSE "F"

\* _is_console_noise on a host object; r is repr(ref)
ConsoleNoiseHost(o, r) ==
    LET tb == _is_tracebackish(o)
    IN  IF tb = "X" THEN "raised"
        ELSE IF tb = "T" THEN "noise"
        ELSE IF _is_interactive_console(o) = "T" THEN "noise"
        ELSE IF _is_completer(o) = "T" THEN "noise"
        ELSE IF _is_interpreter_thread(o) = "T" THEN "noise"
        ELSE IF Kind(o.ty) = "list" /\ r = "raises" THEN "raised"
        ELSE IF Kind(o.ty) = "list" /\ r = "named" THEN "noise"
        ELSE IF Kind(o.ty) = "dict" /\ o.getRaises THEN "raised"
        ELSE IF Kind(o.ty) = "dict" /\ o.mod \in {"__main__", "__console__", "code", "rlcompleter"}
             THEN "noise"
        ELSE "clean"

\* _is_console_noise on any node: "noise", "clean" or "raised"
_is_console_noise(x) ==
    IF x.t = "host" THEN ConsoleNoiseHost(heap[x.i], NodeRepr(x))
    ELSE LET r == NodeRepr(x)        \* a plain builtins.list owned by the tool
         IN  IF r = "raises" THEN "raised"
             ELSE IF r = "named" THEN "noise" ELSE "clean"

----------------------------------------------------------------------------
(* gc.get_referrers and _iter_referrers_filtered                           *)

RECURSIVE AscSeq(_)
AscSeq(S) ==
    IF S = {} THEN <<>>
    ELSE LET m == CHOOSE x \in S : \A y \in S : x <= y
         IN  <<HostNode(m)>> \o AscSeq(S \ {m})

InSeq(x, s) == \E k \in 1..Len(s) : s[k] = x

\* tool-owned lists that hold x, oldest first
ToolReferrers(x) ==
    LET sn == SelectSeq([k \in 1..Len(snaps) |-> SnapNode(k)],
                        LAMBDA n : InSeq(x, ToolElems(n)))
        fr == SelectSeq([k \in 1..Len(stack) |-> RefsNode(stack[k].id)],
                        LAMBDA n : InSeq(x, ToolElems(n)))
    IN  sn \o fr

\* gc.get_referrers(x): the young tool lists first, then the host objects
get_referrers(x) ==
    ToolReferrers(x) \o
    (IF x.t = "host" THEN AscSeq({r \in alive : x.i \in heap[r].refs}) ELSE <<>>)

IsToolDict(x) == x.t = "host" /\ Kind(heap[x.i].ty) = "dict" /\ heap[x.i].toolKey

_iter_referrers_unfiltered(x) ==
    SelectSeq(get_referrers(x), LAMBDA r : ~IsToolDict(r))

\* the referrers the generator yields (when no classification raises)
_iter_referrers_filtered(x) ==
    SelectSeq(get_referrers(x),
              LAMBDA r : _is_console_noise(r) = "clean" /\ ~IsToolDict(r))

\* the generator raises as soon as one classification raises
IterRaises(x) ==
    \E k \in 1..Len(get_referrers(x)) : _is_console_noise(get_referrers(x)[k]) = "raised"

WalkRefsKeepOnError(x) ==
    IF IterRaises(x) THEN get_referrers(x) ELSE _iter_referrers_filtered(x)

\* walk: try: refs = list(_iter_referrers_filtered(node)) except Exception: refs = []
WalkRefs(x) == IF IterRaises(x) THEN <<>> ELSE _iter_referrers_filtered(x)

----------------------------------------------------------------------------
(* print_referrers: the recursive walk as a stack machine                  *)

Min(a, b) == IF a <= b THEN a ELSE b

NoLimit == [none |-> TRUE, v |-> 0]
Limit(n) == [none |-> FALSE, v |-> n]

Line(k, node, par, lvl, n) == [k |-> k, node |-> node, par |-> par, lvl |-> lvl, n |-> n]

Top == stack[Len(stack)]

\* a walk is running: called directly, or from inspect_bv
Walking == pc \in {"walking", "inspecting"}

\* print_referrers(obj, max_depth, per_node_limit): seen_ids = set(); walk(obj, max_depth, "")
StartWalk(obj, d, lim) ==
    /\ seen_ids' = {}
    /\ stack' = <<>>
    /\ expanded' = <<>>
    /\ max_depth' = d
    /\ per_node_limit' = lim
    /\ call' = [node |-> obj, depth |-> d, lvl |-> 0]

\* history record of the referrer query walk makes on node x
Enumerated(x) ==
    [node |-> x, raw |-> get_referrers(x), refs |-> WalkRefs(x), raised |-> IterRaises(x)]

\* if depth < 0: return
DepthExhausted == Walking /\ call # NoCall /\ call.depth < 0

WalkDepthExhausted ==
    /\ DepthExhausted
    /\ call' = NoCall
    /\ UNCHANGED <<seen_ids, stack, log, expanded, max_depth, per_node_limit>>

\* if rid in seen_ids: log "(cycle)"; return
Revisit == Walking /\ call # NoCall /\ call.depth >= 0 /\ call.node \in seen_ids

WalkCycle ==
    /\ Revisit
    /\ log' = Append(log, Line("cycle", call.node, call.node, call.lvl, 0))
    /\ call' = NoCall
    /\ UNCHANGED <<seen_ids, stack, expanded, max_depth, per_node_limit>>

\* seen_ids.add(rid); refs = ...; if not refs: log "[no non-console referrers]"; return
AnyVisit == Walking /\ call # NoCall /\ call.depth >= 0

FirstVisit == Walking /\ call # NoCall /\ call.depth >= 0 /\ call.node \notin seen_ids

WalkLeaf ==
    /\ FirstVisit
    /\ WalkRefs(call.node) = <<>>
    /\ seen_ids' = seen_ids \cup {call.node}
    /\ expanded' = Append(expanded, Enumerated(call.node))
    /\ log' = Append(log, Line("leaf", call.node, call.node, call.lvl, 0))
    /\ call' = NoCall
    /\ UNCHANGED <<stack, max_depth, per_node_limit>>

\* the truncation line and limit = min(per_node_limit, len(refs))
TruncLines(node, lvl, refs) ==
    IF ~per_node_limit.none /\ Len(refs) > per_node_limit.v
    THEN <<Line("trunc", node, node, lvl, Len(refs))>>
    ELSE <<>>

LoopLimitAll(refs) == Len(refs)

LoopLimit(refs) ==
    IF per_node_limit.none THEN Len(refs) ELSE Min(per_node_limit.v, Len(refs))

\* seen_ids.add(rid); refs non-empty: optional truncation line, then the for loop starts
WalkExpand ==
    /\ FirstVisit
    /\ LET refs == WalkRefs(call.node)
       IN  /\ refs # <<>>
           /\ seen_ids' = seen_ids \cup {call.node}
           /\ expanded' = Append(expanded, Enumerated(call.node))
           /\ log' = log \o TruncLines(call.node, call.lvl, refs)
           /\ stack' = Append(stack, [node |-> call.node, depth |-> call.depth,
                                      lvl |-> call.lvl, refs |-> refs, i |-> 0,
                                      limit |-> LoopLimit(refs),
                                      id |-> Len(expanded) + 1])
    /\ call' = NoCall
    /\ UNCHANGED <<max_depth, per_node_limit>>

\* loop body: ref = refs[i]; log its entry; walk(ref, depth-1, indent + "  ")
InLoopBody == Walking /\ call = NoCall /\ stack # <<>> /\ Top.i < Top.limit

LoopOver == Walking /\ call = NoCall /\ stack # <<>> /\ Top.i >= Top.limit

WalkEntry ==
    /\ InLoopBody
    /\ LET ref == Top.refs[Top.i + 1]
       IN  /\ log' = Append(log, Line("entry", ref, Top.node, Top.lvl, 0))
           /\ call' = [node |-> ref, depth |-> Top.depth - 1, lvl |-> Top.lvl + 1]
    /\ stack' = [stack EXCEPT ![Len(stack)].i = @ + 1]
    /\ UNCHANGED <<seen_ids, expanded, max_depth, per_node_limit>>

\* the for loop is over: walk returns and its refs list is released
WalkLoopEnd ==
    /\ LoopOver
    /\ stack' = SubSeq(stack, 1, Len(stack) - 1)
    /\ UNCHANGED <<seen_ids, call, log, expanded, max_depth, per_node_limit>>

WalkStep ==
    \/ WalkDepthExhausted
    \/ WalkCycle
    \/ WalkLeaf
    \/ WalkExpand
    \/ WalkEntry
    \/ WalkLoopEnd

WalkFinished == call = NoCall /\ stack = <<>>

----------------------------------------------------------------------------
(* Specification of one print_referrers call on a heap drawn from a        *)
(* bounded family: a tracked root, one object of any profile, plain others. *)

Obj(ty, rp, mod, toolKey, nameInterp) ==
    [PlainObj EXCEPT !.ty = ty, !.rp = rp, !.mod = mod, !.toolKey = toolKey,
                     !.nameInterp = nameInterp]

WalkProfiles ==
    { Obj("Holder", "plain", "absent", FALSE, FALSE),
      Obj("Holder", "named", "absent", FALSE, FALSE),
      Obj("Holder", "raises", "absent", FALSE, FALSE),
      Obj("frame", "plain", "absent", FALSE, FALSE),
      Obj("StackSummary", "plain", "absent", FALSE, FALSE),
      Obj("InteractiveConsole", "plain", "absent", FALSE, FALSE),
      Obj("JediCompleter", "plain", "absent", FALSE, FALSE),
      Obj("InterpreterThread", "plain", "absent", FALSE, FALSE),
      Obj("Thread", "plain", "absent", FALSE, TRUE),
      Obj("Thread", "plain", "absent", FALSE, FALSE),
      Obj("list", "plain", "absent", FALSE, FALSE),
      Obj("list", "named", "absent", FALSE, FALSE),
      Obj("list", "raises", "absent", FALSE, FALSE),
      Obj("dict", "plain", "__main__", FALSE, FALSE),
      Obj("dict", "plain", "other", TRUE, FALSE),
      Obj("dict", "plain", "other", FALSE, FALSE) }

Names == {"x", "y", "__name__"}
NoBindings == [n \in Names |-> IF n = "__name__" THEN -1 ELSE 0]
NoInput == [cancel |-> TRUE, txt |-> <<>>, count |-> 0, log0 |-> <<>>, alive0 |-> {}]
NoKill == [name |-> "", bound |-> FALSE, outcome |-> "none", before |-> NoBindings]

AtMostOne(S) == {{}} \cup {{x} : x \in S}

Limits == {NoLimit} \cup {Limit(n) : n \in 0..MaxLimit}

Idle ==
    /\ snaps = <<>> /\ input = NoInput /\ idx = -1 /\ boxes = <<>>
    /\ cres = "none" /\ kres = NoKill

InitWalk ==
    /\ \E rootRefs \in AtMostOne({2}), prof \in WalkProfiles,
          tg \in [2..NObj -> AtMostOne(Objs)] :
          heap = [i \in Objs |->
                    IF i = 1 THEN [PlainObj EXCEPT !.ty = "BinaryView", !.refs = rootRefs]
                    ELSE IF i = 2 THEN [prof EXCEPT !.refs = tg[i]]
                    ELSE [PlainObj EXCEPT !.refs = tg[i]]]
    /\ alive = Objs
    /\ max_depth \in 0..MaxDepth
    /\ per_node_limit \in Limits
    /\ seen_ids = {} /\ stack = <<>> /\ expanded = <<>> /\ log = <<>>
    /\ call = [node |-> HostNode(1), depth |-> max_depth, lvl |-> 0]
    /\ pc = "walking"
    /\ ns = NoBindings /\ nsRestricted = FALSE
    /\ Idle

\* walk(obj, max_depth, "") has returned
WalkReturn ==
    /\ pc = "walking" /\ WalkFinished
    /\ pc' = "walked"
    /\ UNCHANGED <<heapVars, nsVars, walkVars, uiVars, cres, kres>>

WalkAction ==
    /\ WalkStep
    /\ UNCHANGED <<heapVars, nsVars, uiVars, pc, cres, kres>>

NextWalk == WalkAction \/ WalkReturn

SpecWalk == InitWalk /\ [][NextWalk]_vars

----------------------------------------------------------------------------
(* Properties of the walker                                                *)

LogLines(k) == {j \in 1..Len(log) : log[j].k = k}

\* the nodes rendered as children of the walked node x, in log order
EntryNodes(x) ==
    LET es == SelectSeq(log, LAMBDA l : l.k = "entry" /\ l.par = x)
    IN  [j \in 1..Len(es) |-> es[j].node]

HasLine(k, x) == \E j \in LogLines(k) : log[j].node = x

\* C1: depth is a hard cap: with max_depth = d no referrer entry lies more
\* than d referrer-hops from the root, and with max_depth = 0 the root is
\* rendered with zero children.
C1_DepthHardCap ==
    /\ \A j \in LogLines("entry") : log[j].lvl + 1 <= max_depth
    /\ max_depth = 0 => LogLines("entry") = {}

\* C2: a walk over a graph with a cycle terminates, no identity has its
\* referrers enumerated twice, and a node reached again is rendered as a
\* terminal cycle marker: it was enumerated before and gets no children.
ExpandedOnce ==
    /\ \A j, k \in 1..Len(expanded) : expanded[j].node = expanded[k].node => j = k
    /\ \A j \in LogLines("cycle") :
          /\ log[j].node \in seen_ids
          /\ \E k \in 1..Len(expanded) :
                /\ expanded[k].node = log[j].node
                /\ Len(EntryNodes(log[j].node)) <= Len(expanded[k].refs)
    /\ call # NoCall /\ call.node \in seen_ids =>
          \E k \in 1..Len(expanded) : expanded[k].node = call.node

\* Termination: Variant is a natural number that every step of the walk
\* strictly decreases, and a walk that has not returned can always step.
\* MaxFan bounds the referrers of one node: the host objects and the tool's
\* own lists (one per open walk frame, at most two snapshots).
MaxFan == NObj + MaxDepth + DEFAULT_MAX_DEPTH + 4

RECURSIVE Cost(_)
Cost(d) == IF d < 0 THEN 1 ELSE 2 + MaxFan * (1 + Cost(d - 1))

RECURSIVE FrameCost(_)
FrameCost(k) ==
    IF k = 0 THEN 0
    ELSE FrameCost(k - 1) + 1 + (stack[k].limit - stack[k].i) * (1 + Cost(stack[k].depth - 1))

Variant ==
    (IF Walking THEN 1 ELSE 0)
    + (IF call # NoCall THEN Cost(call.depth) ELSE 0)
    + FrameCost(Len(stack))

Progress ==
    Walking =>
       \/ DepthExhausted
       \/ Revisit
       \/ FirstVisit
       \/ InLoopBody /\ Top.i + 1 \in DOMAIN Top.refs
       \/ LoopOver
       \/ WalkFinished

C2_CycleSafe ==
    /\ [](ExpandedOnce /\ Progress /\ Variant >= 0)
    /\ [][Variant' < Variant]_vars

C2_Witness ==
    /\ pc = "walked"
    /\ \E j \in LogLines("cycle") : log[j].node = HostNode(1)

\* C3: a walked node with more referrers than per_node_limit shows exactly
\* the first per_node_limit of them, in enumeration order, and a truncation
\* line with the true total; otherwise it shows all and no truncation line.
Shown(refs) ==
    IF ~per_node_limit.none /\ Len(refs) > per_node_limit.v
    THEN per_node_limit.v ELSE Len(refs)

InLoop(x) == \E k \in 1..Len(stack) : stack[k].node = x

LoopIndex(x) == stack[CHOOSE k \in 1..Len(stack) : stack[k].node = x].i

C3_FanOutCap ==
    \A k \in 1..Len(expanded) :
       LET e == expanded[k]
           done == IF InLoop(e.node) THEN LoopIndex(e.node) ELSE Shown(e.refs)
           truncated == ~per_node_limit.none /\ Len(e.refs) > per_node_limit.v
       IN  /\ done <= Shown(e.refs)
           /\ EntryNodes(e.node) = SubSeq(e.refs, 1, done)
           /\ truncated =>
                 \E j \in LogLines("trunc") : log[j].node = e.node /\ log[j].n = Len(e.refs)
           /\ ~truncated => ~HasLine("trunc", e.node)

C3_Witness ==
    /\ pc = "walked"
    /\ ~per_node_limit.none /\ per_node_limit.v > 0
    /\ \E k \in 1..Len(expanded) :
          /\ Len(expanded[k].refs) > per_node_limit.v
          /\ Len(EntryNodes(expanded[k].node)) = per_node_limit.v
          /\ HasLine("trunc", expanded[k].node)

\* C4: no object that matches a noise signature is rendered as a node, and
\* a node all of whose referrers are noise is rendered as a Leaf.
C4_NoNoiseRendered ==
    /\ \A j \in LogLines("entry") \cup LogLines("cycle") :
          _is_console_noise(log[j].node) # "noise"
    /\ \A k \in 1..Len(expanded) :
          LET e == expanded[k]
          IN  (\A j \in 1..Len(e.raw) : _is_console_noise(e.raw[j]) = "noise")
                 => /\ HasLine("leaf", e.node)
                    /\ EntryNodes(e.node) = <<>>

C4_Witness ==
    /\ pc = "walked"
    /\ \E k \in 1..Len(expanded) :
          /\ expanded[k].raw # <<>>
          /\ \A j \in 1..Len(expanded[k].raw) : _is_console_noise(expanded[k].raw[j]) = "noise"
          /\ HasLine("leaf", expanded[k].node)

\* hops from the root at which the walk met node x
LevelOf(x) ==
    IF \E j \in 1..Len(log) : log[j].k \in {"leaf", "trunc", "cycle"} /\ log[j].node = x
    THEN log[CHOOSE j \in 1..Len(log) : log[j].k \in {"leaf", "trunc", "cycle"} /\ log[j].node = x].lvl
    ELSE IF \E j \in LogLines("entry") : log[j].par = x
    THEN log[CHOOSE j \in LogLines("entry") : log[j].par = x].lvl
    ELSE 0

\* C10: when enumerating the referrers of a node raises, that node is
\* rendered as a Leaf with no children, and the walk goes on: once
\* print_referrers has returned, every expanded node has all its entries.
C10_EnumerationFailureIsLocal ==
    /\ \A k \in 1..Len(expanded) :
          expanded[k].raised =>
             /\ expanded[k].refs = <<>>
             /\ HasLine("leaf", expanded[k].node)
             /\ EntryNodes(expanded[k].node) = <<>>
    /\ pc = "walked" =>
          \A k \in 1..Len(expanded) :
             /\ Len(EntryNodes(expanded[k].node)) = Shown(expanded[k].refs)
             /\ \A j \in 1..Shown(expanded[k].refs) :
                   \/ max_depth - (LevelOf(expanded[k].node) + 1) < 0
                   \/ HasLine("cycle", expanded[k].refs[j])
                   \/ \E m \in 1..Len(expanded) : expanded[m].node = expanded[k].refs[j]

\* a node below the root failed, and a later sibling of it was still rendered and walked
C10_Witness ==
    /\ pc = "walked"
    /\ \E k, m \in 1..Len(expanded) :
          /\ k < m
          /\ expanded[k].raised
          /\ expanded[k].node # HostNode(1)
          /\ expanded[m].node # HostNode(1)
          /\ \E p \in 1..Len(expanded) :
                /\ InSeq(expanded[k].node, expanded[p].refs)
                /\ InSeq(expanded[m].node, expanded[p].refs)

----------------------------------------------------------------------------
(* Specification of the noise classifier as a function: the candidate is   *)
(* object 1, of any type and instance facts; object 2 is an element it may *)
(* contain.                                                                *)

InitNoise ==
    /\ \E ty \in TypeNames, tf \in BOOLEAN, ni \in BOOLEAN, rp \in ReprKinds,
          md \in ModNames, gr \in BOOLEAN, el \in AtMostOne({2}), erp \in ReprKinds :
          heap = [i \in Objs |->
                    IF i = 1 THEN [PlainObj EXCEPT !.ty = ty, !.tnFails = tf, !.nameInterp = ni,
                                                   !.rp = rp, !.mod = md, !.getRaises = gr,
                                                   !.refs = el]
                    ELSE IF i = 2 THEN [PlainObj EXCEPT !.rp = erp]
                    ELSE PlainObj]
    /\ alive = Objs
    /\ max_depth = 0 /\ per_node_limit = NoLimit
    /\ seen_ids = {} /\ stack = <<>> /\ expanded = <<>> /\ log = <<>> /\ call = NoCall
    /\ pc = "classify"
    /\ ns = NoBindings /\ nsRestricted = FALSE
    /\ Idle

\* one call _is_console_noise(candidate)
Classify ==
    /\ pc = "classify"
    /\ cres' = _is_console_noise(HostNode(1))
    /\ pc' = "classified"
    /\ UNCHANGED <<heapVars, nsVars, walkVars, uiVars, kres>>

NextNoise == Classify

SpecNoise == InitNoise /\ [][NextNoise]_vars

\* an internal step of the classification fails for the candidate
StepFails(x) ==
    LET o == heap[x.i]
    IN  \/ o.tnFails
        \/ Kind(o.ty) = "dict" /\ o.getRaises
        \/ Kind(o.ty) = "list" /\ NodeRepr(x) = "raises"

\* the candidate matches a noise signature (by its type, names, repr or module name)
MatchesSignature(x) ==
    LET o == heap[x.i]
    IN  \/ Kind(o.ty) \in {"tb", "frame", "console", "completer"}
        \/ Mdl(o.ty) = "traceback"
        \/ Cls(o.ty) \in {"TracebackException", "StackSummary", "InterpreterThread", "Completer"}
        \/ Kind(o.ty) = "thread" /\ o.nameInterp
        \/ Kind(o.ty) = "list" /\ NodeRepr(x) = "named"
        \/ Kind(o.ty) = "dict" /\ o.mod \in {"traceback", "__main__", "__console__", "code", "rlcompleter"}

\* C9: the classifier is total: it answers noise or not noise and never
\* raises; when an internal step fails and no signature matched, the answer
\* is "not noise".
C9_TotalFailOpen ==
    pc = "classified" =>
       /\ cres \in {"noise", "clean"}
       /\ StepFails(HostNode(1)) /\ ~MatchesSignature(HostNode(1)) => cres = "clean"

----------------------------------------------------------------------------
(* Reachability, reference counting and gc.collect                         *)

\* objects held from outside the heap: by the runtime, or by a module binding
Roots(h, b) == {i \in Objs : h[i].pinned} \cup {b[n] : n \in {m \in Names : b[m] > 0}}

RECURSIVE Closure(_, _)
Closure(h, S) ==
    LET nxt == S \cup UNION {h[i].refs : i \in S}
    IN  IF nxt = S THEN S ELSE Closure(h, nxt)

\* reference counting: an object nothing refers to is freed at once
RECURSIVE Sweep(_, _, _)
Sweep(h, b, A) ==
    LET keep == {i \in A : i \in Roots(h, b) \/ \E r \in A : i \in h[r].refs}
    IN  IF keep = A THEN A ELSE Sweep(h, b, keep)

\* gc.collect(): what is left is what the roots reach
gc_collect(h, b, A) == A \cap Closure(h, Roots(h, b) \cap A)

RECURSIVE AscIds(_)
AscIds(S) ==
    IF S = {} THEN <<>>
    ELSE LET m == CHOOSE x \in S : \A y \in S : x <= y
         IN  <<m>> \o AscIds(S \ {m})

\* gc.get_objects(), in the collector's order
get_objects(A) == AscIds(A)

live_bvs_no_collect(h, b, A) ==
    [alive |-> A,
     bvs |-> SelectSeq([k \in 1..Len(get_objects(A)) |-> HostNode(get_objects(A)[k])],
                       LAMBDA x : Kind(h[x.i].ty) = "bv")]

\* live_bvs(): gc.collect(), then every object that isinstance BinaryView
live_bvs(h, b, A) ==
    LET left == gc_collect(h, b, A)
    IN  [alive |-> left,
         bvs |-> SelectSeq([k \in 1..Len(get_objects(left)) |-> HostNode(get_objects(left)[k])],
                           LAMBDA x : Kind(h[x.i].ty) = "bv")]

----------------------------------------------------------------------------
(* kill_ref(varname, module)                                               *)

MaxKills == 2      \* kill_ref calls in one behaviour

\* names found on the module through its type, never in its __dict__
TypeLevel == {"__class__"}

\* hasattr(module, varname)
hasattr(b, name) == name \in TypeLevel \/ (name \in Names /\ b[name] # 0)

InDict(b, name) == name \in Names /\ b[name] # 0

Unbind(b, name) == [b EXCEPT ![name] = 0]

\* outcome of kill_ref: the bindings left and what was reported
\*   "deleted" / "deleted_dict": log_info after delattr / after del __dict__[...]
\*   "failed": log_error "Failed to delete"; "not_found": log_info "... not found."
\*   "raised": an exception left kill_ref
kill_ref(b, restricted, name) ==
    IF hasattr(b, name)
    THEN IF InDict(b, name) /\ ~restricted
         THEN \* delattr succeeded; the log line formats module.__name__
              IF InDict(Unbind(b, name), "__name__")
              THEN [ns |-> Unbind(b, name), outcome |-> "deleted", collected |-> TRUE]
              ELSE \* AttributeError in the try: the fallback del raises KeyError
                   [ns |-> Unbind(b, name), outcome |-> "failed", collected |-> TRUE]
         ELSE \* delattr raised: del module.__dict__[varname]
              IF InDict(b, name)
              THEN IF InDict(Unbind(b, name), "__name__")
                   THEN [ns |-> Unbind(b, name), outcome |-> "deleted_dict", collected |-> TRUE]
                   ELSE [ns |-> Unbind(b, name), outcome |-> "failed", collected |-> TRUE]
              ELSE [ns |-> b, outcome |-> "failed", collected |-> TRUE]
    ELSE \* the "not found" line formats module.__name__ outside any try
         IF InDict(b, "__name__")
         THEN [ns |-> b, outcome |-> "not_found", collected |-> TRUE]
         ELSE [ns |-> b, outcome |-> "raised", collected |-> FALSE]

KillRef(name) ==
    /\ pc = "idle"
    /\ Len(log) < MaxKills
    /\ LET r == kill_ref(ns, nsRestricted, name)
       IN  /\ ns' = r.ns
           /\ kres' = [name |-> name, bound |-> InDict(ns, name), outcome |-> r.outcome,
                       before |-> ns]
           /\ log' = Append(log, Line(r.outcome, NoNode, NoNode, 0, 0))
           /\ alive' = IF r.collected THEN gc_collect(heap, r.ns, Sweep(heap, r.ns, alive))
                       ELSE Sweep(heap, r.ns, alive)
    /\ UNCHANGED <<heap, nsRestricted, seen_ids, stack, call, expanded, max_depth,
                   per_node_limit, uiVars, pc, cres>>

\* the heap of the kill_ref runs: nothing is pinned, so what lives hangs on the bindings
KillHeaps ==
    { [i \in Objs |-> [PlainObj EXCEPT !.ty = IF i = 1 THEN "BinaryView" ELSE tys[i],
                                       !.refs = tg[i], !.pinned = FALSE]] :
        tys \in [Objs -> {"BinaryView", "Holder"}],
        tg \in [Objs -> AtMostOne(Objs)] }

InitKill ==
    /\ heap \in KillHeaps
    /\ ns \in [Names -> {-1, 0} \cup Objs]
    /\ ns["__name__"] = -1 /\ ns["x"] \in 0..1 /\ ns["y"] \in {0, 2}
    /\ nsRestricted \in BOOLEAN
    /\ alive = Sweep(heap, ns, Objs)
    /\ max_depth = 0 /\ per_node_limit = NoLimit
    /\ seen_ids = {} /\ stack = <<>> /\ expanded = <<>> /\ log = <<>> /\ call = NoCall
    /\ pc = "idle"
    /\ Idle

NextKill == \E name \in Names : KillRef(name)

SpecKill == InitKill /\ [][NextKill]_vars

\* C7: kill_ref of a bound name removes the binding, so that a later lookup
\* fails; kill_ref of an unbound name reports "not found" and leaves the
\* namespace unchanged; no failure reaches the caller in either case.
C7_KillRefContract ==
    kres.outcome # "none" =>
       /\ kres.outcome # "raised"
       /\ kres.bound => ~hasattr(ns, kres.name)
       /\ ~kres.bound => kres.outcome = "not_found" /\ ns = kres.before

----------------------------------------------------------------------------
(* Text the operator types, and int(txt.strip())                           *)

MaxTxt == 2        \* longest text typed at the prompt

Alphabet == {"0", "1", "-", " ", "a"}
Digits == {"0", "1"}

Texts == UNION {[1..n -> Alphabet] : n \in 0..MaxTxt}

RECURSIVE LStrip(_)
LStrip(t) == IF t # <<>> /\ Head(t) = " " THEN LStrip(Tail(t)) ELSE t

RECURSIVE RStrip(_)
RStrip(t) == IF t # <<>> /\ t[Len(t)] = " " THEN RStrip(SubSeq(t, 1, Len(t) - 1)) ELSE t

\* str.strip()
strip(t) == RStrip(LStrip(t))

DigitVal(c) == IF c = "1" THEN 1 ELSE 0

RECURSIVE Decimal(_, _)
Decimal(t, acc) == IF t = <<>> THEN acc ELSE Decimal(Tail(t), 10 * acc + DigitVal(Head(t)))

AllDigits(t) == t # <<>> /\ \A k \in 1..Len(t) : t[k] \in Digits

\* int(t): an optional sign, then digits; anything else is a ValueError
int(t) ==
    IF AllDigits(t) THEN [ok |-> TRUE, v |-> Decimal(t, 0)]
    ELSE IF t # <<>> /\ Head(t) = "-" /\ AllDigits(Tail(t))
         THEN [ok |-> TRUE, v |-> 0 - Decimal(Tail(t), 0)]
    ELSE [ok |-> FALSE, v |-> 0]

_prompt_index_off_by_one(raw, max_index) ==
    IF raw.cancel THEN [idx |-> -1, box |-> FALSE]
    ELSE LET p == int(strip(raw.txt))
         IN  IF p.ok /\ 0 <= p.v /\ p.v <= max_index + 1
             THEN [idx |-> p.v, box |-> FALSE]
             ELSE [idx |-> -1, box |-> TRUE]

\* _prompt_index(max_index): the accepted index, or None (idx = -1) with or
\* without the error box
_prompt_index(raw, max_index) ==
    IF raw.cancel THEN [idx |-> -1, box |-> FALSE]
    ELSE LET p == int(strip(raw.txt))
         IN  IF p.ok /\ 0 <= p.v /\ p.v <= max_index
             THEN [idx |-> p.v, box |-> FALSE]
             ELSE [idx |-> -1, box |-> TRUE]

----------------------------------------------------------------------------
(* list_bvs and the Inspect-BV-by-Index command                            *)

\* [r for r in gc.get_referrers(bv) if not _is_console_noise(r)], or -1 when
\* the comprehension raised and the piece is left out
InterestingReferrers(x) ==
    IF IterRaises(x) THEN -1
    ELSE Len(SelectSeq(get_referrers(x), LAMBDA r : _is_console_noise(r) # "noise"))

\* list_bvs: bvs = live_bvs(); nothing live is reported and the command is over
ListBvsBegin ==
    /\ pc = "idle"
    /\ LET r == live_bvs(heap, ns, alive)
       IN  /\ alive' = r.alive
           /\ IF r.bvs = <<>>
              THEN /\ log' = Append(log, Line("nolive", NoNode, NoNode, 0, 0))
                   /\ snaps' = <<>>
                   /\ pc' = "done"
              ELSE /\ log' = Append(log, Line("found", NoNode, NoNode, 0, Len(r.bvs)))
                   /\ snaps' = <<r.bvs>>
                   /\ pc' = "listing"
    /\ UNCHANGED <<heap, nsVars, seen_ids, stack, call, expanded, max_depth, per_node_limit,
                   input, idx, boxes, cres, kres>>

\* list_bvs: one line per instance with its count of non-noise referrers
ListBvsReport ==
    /\ pc = "listing"
    /\ log' = log \o [k \in 1..Len(snaps[1]) |->
                        Line("listed", snaps[1][k], NoNode, 0, InterestingReferrers(snaps[1][k]))]
    /\ snaps' = <<>>
    /\ pc' = "done"
    /\ UNCHANGED <<heapVars, nsVars, seen_ids, stack, call, expanded, max_depth, per_node_limit,
                   input, idx, boxes, cres, kres>>

\* _ua_inspect_bv: bvs = live_bvs(); an information box when nothing is live
UaInspectBegin ==
    /\ pc = "idle"
    /\ LET r == live_bvs(heap, ns, alive)
       IN  /\ alive' = r.alive
           /\ IF r.bvs = <<>>
              THEN /\ boxes' = Append(boxes, "info")
                   /\ snaps' = <<>>
                   /\ pc' = "done"
              ELSE /\ boxes' = boxes
                   /\ snaps' = <<r.bvs>>
                   /\ pc' = "prompt"
    /\ UNCHANGED <<heap, nsVars, walkVars, input, idx, cres, kres>>

\* while the modal prompt is open the host drops one of its references
HostRelease(i) ==
    /\ pc = "prompt"
    /\ i \in alive /\ heap[i].pinned
    /\ heap' = [heap EXCEPT ![i].pinned = FALSE]
    /\ alive' = Sweep(heap', ns, alive)
    /\ UNCHANGED <<nsVars, walkVars, uiVars, pc, cres, kres>>

\* _ua_inspect_bv: idx = _prompt_index(len(bvs) - 1); if idx is None: return
PromptIndex(raw) ==
    /\ pc = "prompt"
    /\ LET r == _prompt_index(raw, Len(snaps[1]) - 1)
       IN  /\ input' = [cancel |-> raw.cancel, txt |-> raw.txt, count |-> Len(snaps[1]),
                        log0 |-> log, alive0 |-> alive]
           /\ boxes' = IF r.box THEN Append(boxes, "error") ELSE boxes
           /\ idx' = r.idx
           /\ IF r.idx = -1
              THEN /\ pc' = "aborted"
                   /\ snaps' = <<>>
                   /\ log' = log
              ELSE /\ pc' = "inspect"
                   /\ snaps' = snaps
                   /\ log' = Append(log, Line("header", NoNode, NoNode, 0, r.idx))
    /\ UNCHANGED <<heapVars, nsVars, seen_ids, stack, call, expanded, max_depth,
                   per_node_limit, cres, kres>>

\* inspect_bv(idx, DEFAULT_MAX_DEPTH, DEFAULT_PER_NODE_LIMIT) up to its call of print_referrers
InspectBv ==
    /\ pc = "inspect"
    /\ LET r == live_bvs(heap, ns, alive)
       IN  /\ alive' = r.alive
           /\ IF r.bvs = <<>>
              THEN /\ log' = Append(log, Line("nolive", NoNode, NoNode, 0, 0))
                   /\ snaps' = <<>>
                   /\ pc' = "done"
                   /\ UNCHANGED <<seen_ids, stack, call, expanded, max_depth, per_node_limit>>
              ELSE IF ~(0 <= idx /\ idx < Len(r.bvs))
              THEN /\ log' = Append(log, Line("range_error", NoNode, NoNode, 0, idx))
                   /\ snaps' = <<>>
                   /\ pc' = "done"
                   /\ UNCHANGED <<seen_ids, stack, call, expanded, max_depth, per_node_limit>>
              ELSE /\ log' = Append(log, Line("inspecting", r.bvs[idx + 1], NoNode, 0, idx))
                   /\ snaps' = Append(snaps, r.bvs)
                   /\ StartWalk(r.bvs[idx + 1], DEFAULT_MAX_DEPTH, Limit(DEFAULT_PER_NODE_LIMIT))
                   /\ pc' = "inspecting"
    /\ UNCHANGED <<heap, nsVars, input, idx, boxes, cres, kres>>

\* print_referrers has returned: inspect_bv logs its tip and the command is over
InspectReturn ==
    /\ pc = "inspecting" /\ WalkFinished
    /\ log' = Append(log, Line("tip", NoNode, NoNode, 0, 0))
    /\ snaps' = <<>>
    /\ pc' = "done"
    /\ UNCHANGED <<heapVars, nsVars, seen_ids, stack, call, expanded, max_depth,
                   per_node_limit, input, idx, boxes, cres, kres>>

Inputs == {[cancel |-> TRUE, txt |-> <<>>]} \cup {[cancel |-> FALSE, txt |-> t] : t \in Texts}

\* heaps of the audit runs: tracked instances (exact type and subtype),
\* holders the runtime keeps, a console namespace, a holder whose repr
\* raises; every object refers to nothing or to a neighbour
Neighbours(i) == {{}} \cup {{j} : j \in {i - 1, i + 1} \cap Objs}

AuditTypes(i) ==
    IF i = 1 THEN {"BinaryView"}
    ELSE IF i = 2 THEN {"MyView", "Holder", "BadHolder", "dict"}
    ELSE {"BinaryView", "Holder"}

AuditObj(ty, refs) ==
    [PlainObj EXCEPT !.ty = IF ty = "BadHolder" THEN "Holder" ELSE ty,
                     !.rp = IF ty = "BadHolder" THEN "raises" ELSE "plain",
                     !.mod = IF ty = "dict" THEN "__main__" ELSE "absent",
                     !.refs = refs,
                     !.pinned = ty \notin {"BinaryView", "MyView"}]

InitAudit ==
    /\ \E tys \in [Objs -> {"BinaryView", "MyView", "Holder", "BadHolder", "dict"}],
          tg \in [Objs -> SUBSET Objs] :
          /\ \A i \in Objs : tys[i] \in AuditTypes(i) /\ tg[i] \in Neighbours(i)
          /\ heap = [i \in Objs |-> AuditObj(tys[i], tg[i])]
    /\ ns = NoBindings /\ nsRestricted = FALSE
    /\ alive = Sweep(heap, ns, Objs)
    /\ max_depth = 0 /\ per_node_limit = NoLimit
    /\ seen_ids = {} /\ stack = <<>> /\ expanded = <<>> /\ log = <<>> /\ call = NoCall
    /\ pc = "idle"
    /\ Idle

NextAudit ==
    \/ ListBvsBegin
    \/ ListBvsReport
    \/ UaInspectBegin
    \/ \E i \in Objs : HostRelease(i)
    \/ \E raw \in Inputs : PromptIndex(raw)
    \/ InspectBv
    \/ WalkAction
    \/ InspectReturn

SpecAudit == InitAudit /\ [][NextAudit]_vars

----------------------------------------------------------------------------
(* Properties of the registry and of the Inspect command                   *)

\* host objects that hold x and are not noise: the holders an operator looks for
RealHolders(x) ==
    {r \in alive : x.i \in heap[r].refs /\ _is_console_noise(HostNode(r)) # "noise"}

\* C5: the tool's own lists (the live_bvs snapshot, the walker's refs list)
\* are neither counted by list_bvs nor rendered by print_referrers, so an
\* instance nothing but noise holds is listed with zero referrers and
\* renders as a Leaf.
C5_ToolListsExcluded ==
    /\ \A j \in LogLines("listed") : log[j].n = Cardinality(RealHolders(log[j].node))
    /\ \A j \in LogLines("entry") : log[j].node.t = "host"
    /\ \A k \in 1..Len(expanded) :
          expanded[k].node.t = "host" /\ RealHolders(expanded[k].node) = {}
             => HasLine("leaf", expanded[k].node)

\* the tracked instances the roots reach
TrulyLive == {i \in Closure(heap, Roots(heap, ns)) : heap[i].ty \in {"BinaryView", "MyView"}}

Occurrences(s, x) == Cardinality({k \in 1..Len(s) : s[k] = x})

\* the list the last live_bvs call returned, while the heap is as it was then
Fresh == IF pc = "listing" THEN snaps[1]
         ELSE IF pc = "inspecting" THEN snaps[Len(snaps)] ELSE <<>>

Denotes(t, v) ==
    \E a, b \in 1..Len(t) :
       /\ a <= b
       /\ \A k \in 1..Len(t) : (k < a \/ k > b) => t[k] = " "
       /\ LET body == SubSeq(t, a, b)
          IN  \/ AllDigits(body) /\ v = Decimal(body, 0)
              \/ Head(body) = "-" /\ AllDigits(Tail(body)) /\ v = 0 - Decimal(Tail(body), 0)

ValidIndex(t, count) == \E v \in 0..(count - 1) : Denotes(t, v)

\* C8: an input that is no integer of 0 .. count-1 gets the error box and
\* the command stops there, the walker not run and nothing changed; the
\* walker runs only on an index of 0 .. count-1, with max_depth 3 and
\* per_node_limit 20.
C8_IndexValidated ==
    /\ ~input.cancel /\ ~ValidIndex(input.txt, input.count) =>
          /\ pc = "aborted"
          /\ boxes = <<"error">>
          /\ expanded = <<>> /\ call = NoCall /\ stack = <<>>
          /\ log = input.log0 /\ alive = input.alive0
    /\ pc = "inspecting" =>
          /\ ~input.cancel /\ ValidIndex(input.txt, input.count)
          /\ idx \in 0..(input.count - 1)
          /\ idx \in 0..(Len(snaps[Len(snaps)]) - 1)
          /\ max_depth = DEFAULT_MAX_DEPTH
          /\ per_node_limit = Limit(DEFAULT_PER_NODE_LIMIT)
          /\ expanded # <<>> => expanded[1].node = snaps[Len(snaps)][idx + 1]
    /\ expanded # <<>> \/ call # NoCall => ValidIndex(input.txt, input.count)

\* the operator typed an integer that is out of range and got the error box
C8_Witness ==
    /\ pc = "aborted"
    /\ ~input.cancel
    /\ \E v \in input.count..11 : Denotes(input.txt, v)
    /\ boxes = <<"error">>
    /\ expanded = <<>>

====
